---------------------------- MODULE Spec2Model ----------------------------
(***************************************************************************)
(* Middleware pipeline of the travel assistant: the agent graph built in   *)
(* app/agent.py (ToolSelector around retry_model around the model, the     *)
(* tools node behind retry_tool, the hallucination guardrail as the        *)
(* after_model hook) driven by the /completions handler of app/main.py.    *)
(*                                                                         *)
(* Strings are sequences of one-character strings, so that startswith,     *)
(* strip, slicing and joining are computed and not assumed.                *)
(***************************************************************************)
EXTENDS Integers, Sequences, FiniteSets, TLC

VARIABLES
    messages,               \* state["messages"] of the thread (checkpointed)
    hallucination_retries,  \* state["hallucination_retries"] of the thread
    events,                 \* the event list of the request being processed
    pc,                     \* where the request being processed stands
    mode,                   \* the branch ToolSelector.wrap_model_call is in
    request_tools,          \* request.tools as forwarded to the handler
    captured,               \* selected_names_capture
    attempt,                \* loop variable of the running retry wrapper
    pending,                \* tool calls of the last AIMessage still to run
    response,               \* what /completions returned for the last request
    turns,                  \* requests received so far on the thread
    detours,                \* exceptions raised, tool rounds and marked inputs so far
    modelCalls,             \* handler invocations of the current model step
    run,                    \* the running retry wrapper: calls and sleeps so far
    lastRetry,              \* the last finished retry_model/retry_tool call
    check,                  \* the last after_model evaluation
    selection,              \* the classification step of the current model step
    sink,                   \* the event sink under concurrent requests
    backoff,                \* one backoff delay computation
    weather,                \* one get_weather_forecast call
    geocode                 \* the geocoding throttle under concurrent calls

vars == <<messages, hallucination_retries, events, pc, mode, request_tools,
          captured, attempt, pending, response, turns, detours,
          modelCalls, run, lastRetry, check, selection, sink, backoff, weather,
          geocode>>

\* The state of the thread's state machine, and the rest.
thread == <<messages, hallucination_retries, events, pc, mode, request_tools,
            captured, attempt, pending, response, turns, detours,
            modelCalls, run, lastRetry, check, selection>>
aux == <<sink, backoff, weather, geocode>>

(***************************************************************************)
(* Bounds of the exploration.                                              *)
(***************************************************************************)
\* MaxTurns requests are made on the thread.  Over its life the environment
\* leaves the plain path (an input answered by one final message) at most
\* MaxDetours times: by an exception of a collaborator, by a model answer
\* that asks for a tool, or by an input that starts like a corrective message.
MaxTurns == 2
MaxDetours == 3

(***************************************************************************)
(* Program constants.                                                      *)
(***************************************************************************)
MAX_HALLUCINATION_RETRIES == 1
MAX_MODEL_RETRIES == 3
MAX_TOOL_RETRIES == 2

TOOLS == <<"get_weather_forecast">>

(***************************************************************************)
(* Strings.                                                                *)
(***************************************************************************)
Whitespace == {" ", "\n"}

startswith(s, p) == Len(s) >= Len(p) /\ SubSeq(s, 1, Len(p)) = p

RECURSIVE lstrip(_)
lstrip(s) == IF s # <<>> /\ Head(s) \in Whitespace THEN lstrip(Tail(s)) ELSE s

RECURSIVE rstrip(_)
rstrip(s) ==
    IF s # <<>> /\ s[Len(s)] \in Whitespace
    THEN rstrip(SubSeq(s, 1, Len(s) - 1)) ELSE s

strip(s) == rstrip(lstrip(s))

contains(s, c) == \E i \in 1..Len(s) : s[i] = c

RECURSIVE join(_, _)
join(sep, parts) ==
    IF parts = <<>> THEN <<>>
    ELSE IF Len(parts) = 1 THEN parts[1]
    ELSE parts[1] \o sep \o join(sep, Tail(parts))

SYSTEM_MARKER == <<"[", "S", "Y", "S", "T", "E", "M", ":">>
OKAY == <<"O", "K">>
PASS == <<"P", "A", "S", "S">>
FAIL == <<"F", "A", "I", "L">>
FAIL_COLON == <<"F", "A", "I", "L", ":">>
DEFAULT_REASON == <<"u", "n", "g", "r", "o", "u", "n", "d", "e", "d">>

(***************************************************************************)
(* Message content: a string, or a list of blocks (a plain string, a text  *)
(* dict, or a dict of another type).                                       *)
(***************************************************************************)
Str(s) == [kind |-> "str", text |-> s, blocks |-> <<>>]
Blocks(bs) == [kind |-> "list", text |-> <<>>, blocks |-> bs]
Block(t, s) == [type |-> t, text |-> s]

RECURSIVE block_parts(_)
block_parts(bs) ==
    IF bs = <<>> THEN <<>>
    ELSE (IF bs[1].type \in {"str", "text"} THEN <<bs[1].text>> ELSE <<>>)
         \o block_parts(Tail(bs))

_extract_text(content) ==
    IF content.kind = "str" THEN content.text
    ELSE join(<<"\n">>, block_parts(content.blocks))

HumanMessage(s) ==
    [type |-> "HumanMessage", content |-> Str(s), tool_calls |-> <<>>, name |-> ""]
AIMessage(c, calls) ==
    [type |-> "AIMessage", content |-> c, tool_calls |-> calls, name |-> ""]
ToolMessage(n, s) ==
    [type |-> "ToolMessage", content |-> Str(s), tool_calls |-> <<>>, name |-> n]

(***************************************************************************)
(* Events.                                                                 *)
(***************************************************************************)
NoDetails == [key |-> "", value |-> 0, selected_tools |-> <<>>, error |-> ""]

emit_event(mw, st, det) == [middleware |-> mw, status |-> st, details |-> det]

Detail(k, v) == [NoDetails EXCEPT !.key = k, !.value = v]
DetailErr(k, v, e) == [NoDetails EXCEPT !.key = k, !.value = v, !.error = e]


(***************************************************************************)
(* HallucinationGuardrailMiddleware.after_model.                           *)
(***************************************************************************)
\* A corrective message that does not begin with the marker.
CorrectiveTextUntagged(failure_reason) ==
    <<"N", "o", "t", "e", ":">> \o <<" ">> \o failure_reason \o <<"]">>

CorrectiveText(failure_reason) == SYSTEM_MARKER \o <<" ">> \o failure_reason \o <<"]">>

GateSkipsIgnoringToolCalls(last_message) ==
    \/ last_message.type # "AIMessage"
    \/ _extract_text(last_message.content) = <<>>
    \/ strip(_extract_text(last_message.content)) = <<>>

\* Gate 1: only a final text response (an AIMessage without tool calls and
\* with text that is not blank) is verified.
GateSkips(last_message) ==
    \/ last_message.type # "AIMessage"
    \/ last_message.tool_calls # <<>>
    \/ _extract_text(last_message.content) = <<>>
    \/ strip(_extract_text(last_message.content)) = <<>>

BudgetExhaustedOffByOne(retries_so_far) == retries_so_far > MAX_HALLUCINATION_RETRIES

BudgetNeverExhausted(retries_so_far) == FALSE

\* Gate 2: the retry budget.
BudgetExhausted(retries_so_far) == retries_so_far >= MAX_HALLUCINATION_RETRIES

FailureReason(verdict) ==
    IF contains(verdict, ":")
    THEN strip(SubSeq(verdict, Len(FAIL_COLON) + 1, Len(verdict)))
    ELSE DEFAULT_REASON

\* An update that writes the counter back at its start value.
ResetUpdate ==
    [none |-> FALSE, messages |-> <<>>, hallucination_retries |-> 0, jump_to |-> ""]

\* return None: no update of the state.
NoUpdate ==
    [none |-> TRUE, messages |-> <<>>, hallucination_retries |-> 0, jump_to |-> ""]

FailUpdateStaleCounter(retries_so_far, failure_reason) ==
    [none |-> FALSE,
     messages |-> <<HumanMessage(CorrectiveText(failure_reason))>>,
     hallucination_retries |-> retries_so_far,
     jump_to |-> "model"]

FailUpdate(retries_so_far, failure_reason) ==
    [none |-> FALSE,
     messages |-> <<HumanMessage(CorrectiveText(failure_reason))>>,
     hallucination_retries |-> retries_so_far + 1,
     jump_to |-> "model"]

FailEvent(retries_so_far) ==
    emit_event("hallucination_guardrail", "failed", Detail("retry", retries_so_far + 1))

(***************************************************************************)
(* _summarize_conversation: one entry for a HumanMessage that does not     *)
(* start with the marker and for an AIMessage, the last SUMMARY_ENTRIES of *)
(* them joined by line feeds.  A tool name is one element of the text.     *)
(***************************************************************************)
SUMMARY_ENTRIES == 10
SNIPPET_CHARS == 100

USER_LABEL == <<"U", "s", "e", "r", ":", " ">>
ASSISTANT_LABEL == <<"A", "s", "s", "i", "s", "t", "a", "n", "t", ":", " ">>
CALLED_TOOLS == <<"[", "c", "a", "l", "l", "e", "d", " ", "t", "o", "o", "l", "s", ":", " ">>
ELLIPSIS == <<".", ".", ".">>

snippet(text) ==
    IF Len(text) > SNIPPET_CHARS
    THEN SubSeq(text, 1, SNIPPET_CHARS) \o ELLIPSIS
    ELSE text

\* The entries that one message adds to parts: one or none.
summary_part(msg) ==
    IF msg.type = "HumanMessage"
    THEN IF startswith(_extract_text(msg.content), SYSTEM_MARKER)
         THEN <<>>
         ELSE <<USER_LABEL \o _extract_text(msg.content)>>
    ELSE IF msg.type = "AIMessage"
    THEN IF msg.tool_calls # <<>>
         THEN <<ASSISTANT_LABEL \o CALLED_TOOLS
                \o join(<<",", " ">>,
                        [i \in 1..Len(msg.tool_calls) |-> <<msg.tool_calls[i]>>])
                \o <<"]">>>>
         ELSE <<ASSISTANT_LABEL \o snippet(_extract_text(msg.content))>>
    ELSE <<>>

RECURSIVE summary_parts(_)
summary_parts(msgs) ==
    IF msgs = <<>> THEN <<>>
    ELSE summary_part(Head(msgs)) \o summary_parts(Tail(msgs))

\* parts[-n:]
last_parts(parts, n) ==
    IF Len(parts) > n THEN SubSeq(parts, Len(parts) - n + 1, Len(parts)) ELSE parts

_summarize_conversation(msgs) ==
    join(<<"\n">>, last_parts(summary_parts(msgs), SUMMARY_ENTRIES))

NotChecked == [invoked |-> FALSE, raised |-> FALSE, verdict |-> <<>>, examined |-> 0]

ErrorOutcomeSilent(checked) ==
    [update |-> NoUpdate, events |-> <<>>, check |-> checked]

\* The 'error' event emitted in the except clause and again on the way out.
ErrorOutcomeTwice(checked) ==
    [update |-> NoUpdate,
     events |-> <<emit_event("hallucination_guardrail", "error", NoDetails),
                  emit_event("hallucination_guardrail", "error", NoDetails)>>,
     check |-> checked]

\* The except clause around the verification call, and the last lines for a
\* verdict of neither prefix: an 'error' event, and None.
ErrorOutcome(checked) ==
    [update |-> NoUpdate,
     events |-> <<emit_event("hallucination_guardrail", "error", NoDetails)>>,
     check |-> checked]

\* The result of one evaluation: the state update returned (none for None),
\* the events emitted, and what was done with the verifier.
after_model(state, verifier) ==
    LET msgs == state.messages
        last_message == msgs[Len(msgs)]
        retries_so_far == state.hallucination_retries
        verdict == strip(_extract_text(verifier.content))
        Checked == [invoked |-> TRUE, raised |-> verifier.raises,
                    verdict |-> IF verifier.raises THEN <<>> ELSE verdict,
                    examined |-> Len(msgs)]
    IN  IF GateSkips(last_message) \/ BudgetExhausted(retries_so_far)
        THEN [update |-> NoUpdate, events |-> <<>>, check |-> NotChecked]
        ELSE IF verifier.raises
        THEN ErrorOutcome(Checked)
        ELSE IF startswith(verdict, PASS)
        THEN [update |-> NoUpdate,
              events |-> <<emit_event("hallucination_guardrail", "passed", NoDetails)>>,
              check |-> Checked]
        ELSE IF startswith(verdict, FAIL)
        THEN [update |-> FailUpdate(retries_so_far, FailureReason(verdict)),
              events |-> <<FailEvent(retries_so_far)>>,
              check |-> Checked]
        ELSE ErrorOutcome(Checked)

(***************************************************************************)
(* retry_model and retry_tool: one pass through the loop body, given the   *)
(* loop variable and what the handler did ("" for a return, else the kind  *)
(* of the exception).  ctl is "return", "raise" or "sleep".                *)
(***************************************************************************)
ReturnEventOffByOne(mw, att) ==
    IF att > 0
    THEN emit_event(mw, "recovered", Detail("attempts", att))
    ELSE emit_event(mw, "success", NoDetails)

ReturnEvent(mw, att) ==
    IF att > 0
    THEN emit_event(mw, "recovered", Detail("attempts", att + 1))
    ELSE emit_event(mw, "success", NoDetails)

\* The loop variable taken for a 1-based attempt number.
IsLastAttemptOneBased(att, max) == att + 1 = max - 1

\* The loop takes one pass more than range(max_retries) gives.
IsLastAttemptBeyondRange(att, max) == att = max

IsLastAttempt(att, max) == att = max - 1

retry_step(mw, max, att, exc) ==
    IF exc = ""
    THEN [ctl |-> "return", events |-> <<ReturnEvent(mw, att)>>]
    ELSE IF IsLastAttempt(att, max)
    THEN [ctl |-> "raise",
          events |-> <<emit_event(mw, "failed", DetailErr("attempts", max, exc))>>]
    ELSE [ctl |-> "sleep",
          events |-> <<emit_event(mw, "retrying", Detail("attempt", att + 1))>>]

retry_model(att, exc) == retry_step("retry_model", MAX_MODEL_RETRIES, att, exc)
retry_tool(att, exc) == retry_step("retry_tool", MAX_TOOL_RETRIES, att, exc)

(***************************************************************************)
(* ToolSelectorMiddleware.wrap_model_call.                                 *)
(***************************************************************************)
\* The gate: the most recent HumanMessage starts with "[SYSTEM:".
\* The gate looking at the last message only.
LastMessageIsCorrection(msgs) ==
    /\ msgs # <<>>
    /\ msgs[Len(msgs)].type = "HumanMessage"
    /\ startswith(msgs[Len(msgs)].content.text, SYSTEM_MARKER)

RECURSIVE LastHumanIsCorrection(_)
LastHumanIsCorrection(msgs) ==
    IF msgs = <<>> THEN FALSE
    ELSE IF msgs[Len(msgs)].type = "HumanMessage"
    THEN startswith(msgs[Len(msgs)].content.text, SYSTEM_MARKER)
    ELSE LastHumanIsCorrection(SubSeq(msgs, 1, Len(msgs) - 1))

SeqRange(s) == {s[i] : i \in 1..Len(s)}

RECURSIVE Filter(_, _)
Filter(s, keep) ==
    IF s = <<>> THEN <<>>
    ELSE (IF s[1] \in keep THEN <<s[1]>> ELSE <<>>) \o Filter(Tail(s), keep)

\* The exceptions the except clause catches.
Caught(exc) == exc \in {"ValueError", "AssertionError"}

\* What the classification step of the base class does with the answer of
\* the selection model: "" and the narrowed tools, or the exception raised.
Classify(sel) ==
    IF sel.exc # "" THEN [exc |-> sel.exc, tools |-> <<>>]
    ELSE IF ~(SeqRange(sel.names) \subseteq SeqRange(TOOLS))
    THEN [exc |-> "ValueError", tools |-> <<>>]
    ELSE [exc |-> "", tools |-> Filter(TOOLS, SeqRange(sel.names))]

\* The 'success' event listing the declared tools, not the captured ones.
tool_selector_after_declared(m, exc, cap) ==
    IF m = "selected" /\ Caught(exc)
    THEN [ctl |-> "fallback",
          events |-> <<emit_event("tool_selector", "error",
                                  [NoDetails EXCEPT !.error = exc])>>]
    ELSE IF exc # ""
    THEN [ctl |-> "raise", events |-> <<>>]
    ELSE IF m = "selected"
    THEN [ctl |-> "return",
          events |-> <<emit_event("tool_selector", "success",
                                  [NoDetails EXCEPT !.key = "selected_tools",
                                                    !.selected_tools = TOOLS])>>]
    ELSE [ctl |-> "return", events |-> <<>>]

\* The 'success' event emitted in a finally clause, whatever the handler did.
tool_selector_after_finally(m, exc, cap) ==
    LET success == emit_event("tool_selector", "success",
                              [NoDetails EXCEPT !.key = "selected_tools",
                                                !.selected_tools = cap])
    IN  IF m = "selected" /\ Caught(exc)
        THEN [ctl |-> "fallback",
              events |-> <<emit_event("tool_selector", "error",
                                      [NoDetails EXCEPT !.error = exc])>>]
        ELSE IF exc # ""
        THEN [ctl |-> "raise", events |-> IF m = "selected" THEN <<success>> ELSE <<>>]
        ELSE IF m = "selected"
        THEN [ctl |-> "return", events |-> <<success>>]
        ELSE [ctl |-> "return", events |-> <<>>]

\* After the handler (retry_model) has returned or raised inside the branch
\* `m`: "return" and "raise" leave wrap_model_call, "fallback" is the except
\* clause calling handler(request) with all the tools.
tool_selector_after(m, exc, cap) ==
    IF m = "selected" /\ Caught(exc)
    THEN [ctl |-> "fallback",
          events |-> <<emit_event("tool_selector", "error",
                                  [NoDetails EXCEPT !.error = exc])>>]
    ELSE IF exc # ""
    THEN [ctl |-> "raise", events |-> <<>>]
    ELSE IF m = "selected"
    THEN [ctl |-> "return",
          events |-> <<emit_event("tool_selector", "success",
                                  [NoDetails EXCEPT !.key = "selected_tools",
                                                    !.selected_tools = cap])>>]
    ELSE [ctl |-> "return", events |-> <<>>]


(***************************************************************************)
(* get_weather_forecast.  An optional field is <<>> for None and <<v>> for  *)
(* the value v; a raising helper returns the class and text of what it      *)
(* raised in exc and text.                                                  *)
(***************************************************************************)
\* float(s) of the numerals the geocoder is seen to answer with.
Numerals == {"48", "2"}
float(s) ==
    IF s \in Numerals
    THEN [exc |-> "", value |-> IF s = "48" THEN 48 ELSE 2]
    ELSE [exc |-> "ValueError", value |-> 0]

\* The number as the JSON dump writes it.
dump_number(n) == IF n = 48 THEN "48" ELSE IF n = 2 THEN "2" ELSE "0"

NoPlace == [exc |-> "", text |-> "", place |-> "", lat |-> 0, lon |-> 0]

\* _geocode_city on the answer of the geocoder: a timeout, an error status,
\* an empty result list, or a first result with or without display_name and
\* with lat and lon as the strings the service sends.
_geocode_city(city, answer) ==
    IF answer.kind = "timeout"
    THEN [NoPlace EXCEPT !.exc = "TimeoutException", !.text = "timed out"]
    ELSE IF answer.kind = "status"
    THEN [NoPlace EXCEPT !.exc = "HTTPStatusError", !.text = "status"]
    ELSE IF answer.results = <<>>
    THEN [NoPlace EXCEPT !.exc = "ValueError", !.text = "Could not find"]
    ELSE LET top == answer.results[1]
             lat == float(top.lat)
             lon == float(top.lon)
         IN  IF lat.exc # "" \/ lon.exc # ""
             THEN [NoPlace EXCEPT !.exc = "ValueError", !.text = "could not convert"]
             ELSE [NoPlace EXCEPT
                     !.place = IF top.display_name = <<>> THEN city
                               ELSE top.display_name[1],
                     !.lat = lat.value, !.lon = lon.value]

\* _fetch_7day_forecast on the answer of the forecast service, the daily
\* aggregation taken as done.
_fetch_7day_forecast(answer) ==
    IF answer.kind = "timeout"
    THEN [exc |-> "TimeoutException", text |-> "timed out", days |-> <<>>]
    ELSE IF answer.kind = "status"
    THEN [exc |-> "HTTPStatusError", text |-> "status", days |-> <<>>]
    ELSE IF answer.kind = "malformed"
    THEN [exc |-> "KeyError", text |-> "properties", days |-> <<>>]
    ELSE [exc |-> "", text |-> "", days |-> answer.days]

WeatherForecastResult(ok, query, place, lat, lon, days, error) ==
    [ok |-> ok, query |-> query, place |-> place, lat |-> lat, lon |-> lon,
     days |-> days, error |-> error]

\* The three except clauses.
WeatherFailure(city, exc, text) ==
    IF exc = "TimeoutException"
    THEN WeatherForecastResult(FALSE, city, <<>>, <<>>, <<>>, <<>>,
                               <<"Timeout while fetching forecast">>)
    ELSE IF exc = "ValueError"
    THEN WeatherForecastResult(FALSE, city, <<>>, <<>>, <<>>, <<>>, <<text>>)
    ELSE WeatherForecastResult(FALSE, city, <<>>, <<>>, <<>>, <<>>,
                               <<"Unexpected error", text>>)

\* The body of the tool with no clause for Exception.
weather_result_uncaught(city, geo, fc) ==
    LET g == _geocode_city(city, geo)
        f == _fetch_7day_forecast(fc)
        caught == {"TimeoutException", "ValueError"}
        none == WeatherForecastResult(FALSE, city, <<>>, <<>>, <<>>, <<>>, <<>>)
    IN  IF g.exc # ""
        THEN IF g.exc \in caught
             THEN [raised |-> "", result |-> WeatherFailure(city, g.exc, g.text)]
             ELSE [raised |-> g.exc, result |-> none]
        ELSE IF f.exc # ""
        THEN IF f.exc \in caught
             THEN [raised |-> "", result |-> WeatherFailure(city, f.exc, f.text)]
             ELSE [raised |-> f.exc, result |-> none]
        ELSE [raised |-> "",
              result |-> WeatherForecastResult(TRUE, city, <<g.place>>, <<g.lat>>,
                                               <<g.lon>>, f.days, <<>>)]

\* The body of the tool up to the result object: raised is the exception
\* that leaves the function, "" when it returns.
weather_result(city, geo, fc) ==
    LET g == _geocode_city(city, geo)
        f == _fetch_7day_forecast(fc)
    IN  IF g.exc # ""
        THEN [raised |-> "", result |-> WeatherFailure(city, g.exc, g.text)]
        ELSE IF f.exc # ""
        THEN [raised |-> "", result |-> WeatherFailure(city, f.exc, f.text)]
        ELSE [raised |-> "",
              result |-> WeatherForecastResult(TRUE, city, <<g.place>>, <<g.lat>>,
                                               <<g.lon>>, f.days, <<>>)]

dump_optional(key, opt) == IF opt = <<>> THEN <<key, "null">> ELSE <<key>> \o opt

\* result.model_dump_json(), as the sequence of its keys and values.
model_dump_json(r) ==
    <<"ok", IF r.ok THEN "true" ELSE "false", "query", r.query>>
    \o dump_optional("place", r.place)
    \o dump_optional("lat", IF r.lat = <<>> THEN <<>> ELSE <<dump_number(r.lat[1])>>)
    \o dump_optional("lon", IF r.lon = <<>> THEN <<>> ELSE <<dump_number(r.lon[1])>>)
    \o <<"days">> \o r.days
    \o (IF r.error = <<>> THEN <<"error", "null">> ELSE <<"error">> \o r.error)

get_weather_forecast(city, geo, fc) ==
    LET w == weather_result(city, geo, fc)
    IN  [raised |-> w.raised, result |-> w.result,
         json |-> IF w.raised = "" THEN model_dump_json(w.result) ELSE <<>>]

\* Answers of the two services.
Found(display_name, lat, lon) ==
    [kind |-> "ok",
     results |-> <<[display_name |-> display_name, lat |-> lat, lon |-> lon]>>]
GeoTimeout == [kind |-> "timeout", results |-> <<>>]
GeoAnswers ==
    {GeoTimeout, [kind |-> "status", results |-> <<>>], [kind |-> "ok", results |-> <<>>]}
    \cup {Found(d, lat, lon) : d \in {<<>>, <<"Paris, France">>},
                               lat \in Numerals \cup {"x"}, lon \in Numerals}
Forecast(days) == [kind |-> "ok", days |-> days]
ForecastAnswers ==
    {[kind |-> k, days |-> <<>>] : k \in {"timeout", "status", "malformed"}}
    \cup {Forecast(d) : d \in {<<>>, <<"mon">>, <<"mon", "tue">>}}

(***************************************************************************)
(* What the collaborators can do.                                          *)
(***************************************************************************)
\* Exceptions of a model call: one kind ToolSelector's except clause names
\* (pydantic's ValidationError is a ValueError), one it does not.
ExcKinds == {"ValueError", "TimeoutError"}

\* /completions inputs: a plain question, and one that starts like a
\* corrective message.
UserInputs == {<<"h", "i">>, SYSTEM_MARKER \o <<"x">>}

\* Answers of the selection model: an exception, or a list of tool names.
Selections(mayDetour) ==
    (IF mayDetour
     THEN {[exc |-> e, names |-> <<>>] :
             e \in {"AssertionError", "TimeoutError", "ConnectionError"}}
     ELSE {})
    \cup {[exc |-> "", names |-> n] :
            n \in {<<>>, <<"get_weather_forecast">>, <<"nonexistent_tool">>}}

FinalContents ==
    {Str(<<"o", "k">>),
     Blocks(<<Block("text", <<" ">>), Block("image", <<"x">>)>>)}

\* What a model call does: raise, answer with a final message, or ask for
\* one of the tools it was offered.
ModelOutcomes(tools, mayDetour) ==
    (IF mayDetour
     THEN {[exc |-> e, message |-> AIMessage(Str(<<>>), <<>>)] : e \in ExcKinds}
     ELSE {})
    \cup {[exc |-> "", message |-> AIMessage(c, <<>>)] : c \in FinalContents}
    \cup (IF mayDetour
          THEN {[exc |-> "", message |-> AIMessage(Str(<<>>), <<t>>)] : t \in SeqRange(tools)}
          ELSE {})

\* What the call of the weather tool does: the framework raises around it,
\* or the tool returns its JSON, the services having answered or (as a
\* detour) the geocoder having timed out.
ToolOutcomes(mayDetour) ==
    (IF mayDetour
     THEN {[exc |-> e, result |-> <<>>, http |-> "none"] : e \in {"TimeoutError"}}
          \cup {[exc |-> "", http |-> "timeout",
                 result |-> get_weather_forecast("Paris", GeoTimeout,
                                                 Forecast(<<"mon">>)).json]}
     ELSE {})
    \cup {[exc |-> "", http |-> "ok",
           result |-> get_weather_forecast("Paris", Found(<<>>, "48", "2"),
                                           Forecast(<<"mon">>)).json]}

\* What the verification model does: raise, or answer with a verdict.
VerifierOutcomes(mayDetour) ==
    (IF mayDetour THEN {[raises |-> TRUE, content |-> Str(<<>>)]} ELSE {})
    \cup {[raises |-> FALSE, content |-> Str(v)] :
            v \in {PASS \o <<"\n">>, FAIL_COLON \o <<" ">> \o DEFAULT_REASON,
                   FAIL, <<"O", "K">>}}

(***************************************************************************)
(* The state machine of one thread.                                        *)
(***************************************************************************)
NoResponse == [status |-> 0, content |-> <<>>, middleware_events |-> <<>>]
NoRetry == [wrapper |-> "", ctl |-> "", first |-> 0, last |-> 0, calls |-> 0,
            sleeps |-> 0, exc |-> "", handler_result |-> <<>>, result |-> <<>>]
NoCheck == [evaluated |-> FALSE, invoked |-> FALSE, raised |-> FALSE,
            verdict |-> <<>>, examined |-> 0, summary |-> <<>>, before_len |-> 0,
            before_retries |-> 0, before_events |-> 0]
Running(first) == [first |-> first, calls |-> 0, sleeps |-> 0]
NoSelection == [called |-> FALSE, exc |-> "", names |-> <<>>, first |-> 0]

\* The sink, the delay computation and the weather call at rest.
SinkIdle ==
    [lists |-> <<>>, ctx |-> <<>>, rpc |-> <<>>, emitted |-> <<>>, returned |-> <<>>,
     trace |-> <<>>, loop |-> 0, health |-> 0]
BackoffIdle == [phase |-> "idle", wrapper |-> "", attempt |-> 0, random |-> 0,
                sleep_time |-> 0]
WeatherIdle == [phase |-> "idle", city |-> "", geo |-> [kind |-> "", results |-> <<>>],
                fc |-> [kind |-> "", days |-> <<>>], raised |-> "", json |-> <<>>,
                result |-> WeatherForecastResult(FALSE, "", <<>>, <<>>, <<>>, <<>>, <<>>)]
GeocodeIdle == [now |-> 0, last |-> 0, pc |-> <<>>, elapsed |-> <<>>, wake |-> <<>>,
                calls |-> <<>>, requests |-> <<>>]

AuxIdle ==
    /\ sink = SinkIdle
    /\ backoff = BackoffIdle
    /\ weather = WeatherIdle
    /\ geocode = GeocodeIdle

\* The thread before its first request.
ThreadIdle ==
    /\ messages = <<>>
    /\ hallucination_retries = 0
    /\ events = <<>>
    /\ pc = "idle"
    /\ mode = "none"
    /\ request_tools = <<>>
    /\ captured = <<>>
    /\ attempt = 0
    /\ run = Running(0)
    /\ pending = <<>>
    /\ response = NoResponse
    /\ turns = 0
    /\ detours = 0
    /\ modelCalls = 0
    /\ lastRetry = NoRetry
    /\ check = NoCheck
    /\ selection = NoSelection

Init == ThreadIdle /\ AuxIdle

\* The counter a new turn starts from without a checkpoint of the thread.
CheckpointedFresh(c) == 0

\* The counter a new turn starts from: the checkpointer hands back the
\* thread's state, and the input of agent.invoke only names messages.
Checkpointed(c) == c

\* completions, up to agent.invoke: a new event list, and the input appended
\* to the thread's messages.
Completions(input) ==
    /\ pc = "idle"
    /\ turns < MaxTurns
    /\ events' = <<>>
    /\ messages' = Append(messages, HumanMessage(input))
    /\ pc' = "tool_selector"
    /\ turns' = turns + 1
    /\ response' = NoResponse
    /\ lastRetry' = NoRetry
    /\ check' = NoCheck
    /\ modelCalls' = 0
    /\ mode' = "none"
    /\ request_tools' = <<>>
    /\ captured' = <<>>
    /\ attempt' = 0
    /\ pending' = <<>>
    /\ run' = Running(0)
    /\ startswith(input, SYSTEM_MARKER) => detours < MaxDetours
    /\ detours' = IF startswith(input, SYSTEM_MARKER) THEN detours + 1 ELSE detours
    /\ selection' = NoSelection
    /\ hallucination_retries' = Checkpointed(hallucination_retries)
    /\ UNCHANGED aux

\* Entering retry_model under ToolSelector's branch m with the tools ts.
EnterRetryModel(m, ts, evs) ==
    /\ events' = evs
    /\ mode' = m
    /\ request_tools' = ts
    /\ attempt' = 0
    /\ run' = Running(Len(evs))
    /\ pc' = "retry_model"

\* wrap_model_call when the last user message is a corrective one.
ToolSelectorSkip ==
    /\ pc = "tool_selector"
    /\ LastHumanIsCorrection(messages)
    /\ EnterRetryModel("skipped", TOOLS,
            Append(events, emit_event("tool_selector", "skipped", NoDetails)))
    /\ captured' = <<>>
    /\ modelCalls' = 0
    /\ check' = NoCheck
    /\ selection' = [NoSelection EXCEPT !.first = Len(events)]
    /\ UNCHANGED <<messages, hallucination_retries, pending, response, turns,
                   detours, lastRetry, aux>>

\* wrap_model_call otherwise, up to the first call of the handler: the
\* classification step narrows the tools, fails into the fallback, or
\* raises out of the middleware.
ToolSelectorSelect(sel) ==
    /\ pc = "tool_selector"
    /\ ~LastHumanIsCorrection(messages)
    /\ LET c == Classify(sel)
       IN  IF c.exc = ""
           THEN /\ EnterRetryModel("selected", c.tools, events)
                /\ captured' = c.tools
           ELSE IF Caught(c.exc)
           THEN /\ EnterRetryModel("fallback", TOOLS,
                        Append(events, emit_event("tool_selector", "error",
                                                  [NoDetails EXCEPT !.error = c.exc])))
                /\ captured' = <<>>
           ELSE /\ pc' = "failed"
                /\ mode' = "none"
                /\ UNCHANGED <<events, request_tools, attempt, run, captured>>
    /\ modelCalls' = 0
    /\ detours' = IF sel.exc # "" THEN detours + 1 ELSE detours
    /\ check' = NoCheck
    /\ selection' = [called |-> TRUE, exc |-> Classify(sel).exc, names |-> sel.names,
                     first |-> Len(events)]
    /\ UNCHANGED <<messages, hallucination_retries, pending, response, turns,
                   lastRetry, aux>>

Finished(wrapper, ctl, evs, out, returned) ==
    [wrapper |-> wrapper, ctl |-> ctl, first |-> run.first, last |-> Len(evs),
     calls |-> run.calls + 1, sleeps |-> run.sleeps, exc |-> out.exc,
     handler_result |-> IF out.exc = "" THEN <<out>> ELSE <<>>,
     result |-> returned]

\* One pass through retry_model's loop: the model call, then either the
\* sleep before the next pass, or the way back through ToolSelector.
ModelCall(out) ==
    /\ pc = "retry_model"
    /\ LET r == retry_model(attempt, out.exc)
           evs == events \o r.events
       IN  IF r.ctl = "sleep"
           THEN /\ events' = evs
                /\ attempt' = attempt + 1
                /\ run' = [run EXCEPT !.calls = @ + 1, !.sleeps = @ + 1]
                /\ UNCHANGED <<messages, pc, mode, request_tools, lastRetry>>
           ELSE LET t == tool_selector_after(mode, IF r.ctl = "raise" THEN out.exc ELSE "",
                                             captured)
                    evs2 == evs \o t.events
                IN  /\ lastRetry' = Finished("retry_model", r.ctl, evs, out,
                                             IF r.ctl = "return" THEN <<out>> ELSE <<>>)
                    /\ IF t.ctl = "fallback"
                       THEN /\ EnterRetryModel("fallback", TOOLS, evs2)
                            /\ UNCHANGED messages
                       ELSE /\ events' = evs2
                            /\ messages' = IF t.ctl = "return"
                                           THEN Append(messages, out.message)
                                           ELSE messages
                            /\ pc' = IF t.ctl = "return" THEN "after_model" ELSE "failed"
                            /\ UNCHANGED <<mode, request_tools, attempt, run>>
    /\ modelCalls' = modelCalls + 1
    /\ detours' = IF out.exc # "" \/ out.message.tool_calls # <<>>
                  THEN detours + 1 ELSE detours
    /\ check' = NoCheck
    /\ UNCHANGED <<hallucination_retries, captured, pending, response, turns,
                   selection, aux>>


\* An update of messages that puts the new list in place of the old one.
add_messages_replacing(left, right) == right

\* The reducer of state["messages"]: the messages of an update (new ones,
\* with ids of their own) are appended to the history.
add_messages(left, right) == left \o right

\* The graph's edge out of after_model: back to the model on jump_to, to
\* the tools when the last AIMessage asks for some, else to the end.
Route(update, last_message) ==
    IF ~update.none /\ update.jump_to = "model" THEN "tool_selector"
    ELSE IF last_message.type = "AIMessage" /\ last_message.tool_calls # <<>>
    THEN "tools"
    ELSE "respond"

\* The after_model hook and the edge that follows it.
AfterModel(verifier) ==
    /\ pc = "after_model"
    /\ LET g == after_model([messages |-> messages,
                             hallucination_retries |-> hallucination_retries],
                            verifier)
           last_message == messages[Len(messages)]
           next == Route(g.update, last_message)
       IN  /\ events' = events \o g.events
           /\ messages' = IF g.update.none THEN messages
                          ELSE add_messages(messages, g.update.messages)
           /\ hallucination_retries' = IF g.update.none THEN hallucination_retries
                                       ELSE g.update.hallucination_retries
           /\ check' = [evaluated |-> TRUE, invoked |-> g.check.invoked,
                        raised |-> g.check.raised, verdict |-> g.check.verdict,
                        examined |-> g.check.examined,
                        summary |-> <<>>,
                        before_len |-> Len(messages),
                        before_retries |-> hallucination_retries,
                        before_events |-> Len(events)]
           /\ pc' = next
           /\ pending' = IF next = "tools" THEN last_message.tool_calls ELSE <<>>
           /\ attempt' = 0
           /\ run' = Running(Len(events'))
    /\ detours' = IF verifier.raises /\ check'.invoked THEN detours + 1 ELSE detours
    /\ UNCHANGED <<mode, request_tools, captured, response, turns, modelCalls,
                   lastRetry, selection, aux>>

\* One pass through retry_tool's loop for the first pending tool call.
ToolCall(out) ==
    /\ pc = "tools"
    /\ pending # <<>>
    /\ LET r == retry_tool(attempt, out.exc)
           evs == events \o r.events
       IN  /\ events' = evs
           /\ IF r.ctl = "sleep"
              THEN /\ attempt' = attempt + 1
                   /\ run' = [run EXCEPT !.calls = @ + 1, !.sleeps = @ + 1]
                   /\ UNCHANGED <<messages, pc, pending, lastRetry>>
              ELSE /\ lastRetry' = Finished("retry_tool", r.ctl, evs, out,
                                            IF r.ctl = "return" THEN <<out>> ELSE <<>>)
                   /\ attempt' = 0
                   /\ run' = Running(Len(evs))
                   /\ IF r.ctl = "return"
                      THEN /\ messages' = Append(messages,
                                                 ToolMessage(Head(pending), out.result))
                           /\ pending' = Tail(pending)
                           /\ pc' = IF Tail(pending) = <<>> THEN "tool_selector" ELSE "tools"
                      ELSE /\ pc' = "failed"
                           /\ UNCHANGED <<messages, pending>>
    /\ detours' = IF out.exc # "" \/ out.http # "ok" THEN detours + 1 ELSE detours
    /\ check' = NoCheck
    /\ UNCHANGED <<hallucination_retries, mode, request_tools, captured, response,
                   turns, modelCalls, selection, aux>>

GENERIC_ERROR == <<"S", "o", "m", "e", "t", "h", "i", "n", "g">>

\* completions after agent.invoke returned: the 200 answer.
Respond ==
    /\ pc = "respond"
    /\ response' = [status |-> 200,
                    content |-> _extract_text(messages[Len(messages)].content),
                    middleware_events |-> events]
    /\ pc' = "idle"
    /\ check' = NoCheck
    /\ UNCHANGED <<messages, hallucination_retries, events, mode, request_tools,
                   captured, attempt, pending, turns, detours, modelCalls,
                   run, lastRetry, selection, aux>>

\* The exception that left agent.invoke: the one the selection model raised
\* past ToolSelector, else the one the last retry wrapper re-raised.
Raised ==
    IF modelCalls = 0 /\ selection.called /\ selection.exc # ""
       /\ ~Caught(selection.exc)
    THEN selection.exc
    ELSE lastRetry.exc

\* An answer that tells what was raised and what was emitted before.
ErrorResponseWithDetail(exc, evs) ==
    [status |-> 500, content |-> <<exc>>, middleware_events |-> evs]

\* The answer of the except clause.
ErrorResponse(exc, evs) ==
    [status |-> 500, content |-> GENERIC_ERROR, middleware_events |-> <<>>]

\* completions after agent.invoke raised: the 500 answer.
Fail ==
    /\ pc = "failed"
    /\ response' = ErrorResponse(Raised, events)
    /\ pc' = "idle"
    /\ check' = NoCheck
    /\ UNCHANGED <<messages, hallucination_retries, events, mode, request_tools,
                   captured, attempt, pending, turns, detours, modelCalls,
                   run, lastRetry, selection, aux>>

Next ==
    \/ \E input \in UserInputs : Completions(input)
    \/ ToolSelectorSkip
    \/ \E sel \in Selections(detours < MaxDetours) : ToolSelectorSelect(sel)
    \/ \E out \in ModelOutcomes(request_tools, detours < MaxDetours) : ModelCall(out)
    \/ \E verifier \in VerifierOutcomes(detours < MaxDetours) : AfterModel(verifier)
    \/ \E out \in ToolOutcomes(detours < MaxDetours) : ToolCall(out)
    \/ Respond
    \/ Fail

Spec == Init /\ [][Next]_vars

(***************************************************************************)
(* One turn from its request to its answer, on a new thread or on a thread *)
(* that an earlier turn left corrected, with at most LiveDetours detours.  *)
(***************************************************************************)
LiveDetours == 3

\* The history of a turn on a plain question whose first answer was
\* corrected.
CorrectedThread ==
    <<HumanMessage(<<"h", "i">>), AIMessage(Str(<<"o", "k">>), <<>>),
      HumanMessage(CorrectiveText(DEFAULT_REASON)), AIMessage(Str(<<"o", "k">>), <<>>)>>

LiveInit ==
    /\ \/ messages = <<>> /\ hallucination_retries = 0
       \/ messages = CorrectedThread
          /\ hallucination_retries = MAX_HALLUCINATION_RETRIES
    /\ events = <<>>
    /\ pc = "idle"
    /\ mode = "none"
    /\ request_tools = <<>>
    /\ captured = <<>>
    /\ attempt = 0
    /\ run = Running(0)
    /\ pending = <<>>
    /\ response = NoResponse
    /\ turns = 0
    /\ detours = 0
    /\ modelCalls = 0
    /\ lastRetry = NoRetry
    /\ check = NoCheck
    /\ selection = NoSelection
    /\ AuxIdle

\* The steps of a turn under way.  agent.invoke runs them one after the
\* other on the thread of the request and nothing outside can hold them
\* back, whereas the request itself may never come.
TurnStep ==
    \/ ToolSelectorSkip
    \/ \E sel \in Selections(detours < LiveDetours) : ToolSelectorSelect(sel)
    \/ \E out \in ModelOutcomes(request_tools, detours < LiveDetours) : ModelCall(out)
    \/ \E verifier \in VerifierOutcomes(detours < LiveDetours) : AfterModel(verifier)
    \/ \E out \in ToolOutcomes(detours < LiveDetours) : ToolCall(out)
    \/ Respond
    \/ Fail

LiveNext ==
    \/ \E input \in UserInputs :
          /\ turns = 0
          /\ startswith(input, SYSTEM_MARKER) => detours < LiveDetours
          /\ Completions(input)
    \/ TurnStep

LiveSpec == LiveInit /\ [][LiveNext]_vars /\ WF_vars(TurnStep)


(***************************************************************************)
(* after_model on its own: applied once to any short message history and   *)
(* any counter value the thread can hold.                                  *)
(***************************************************************************)
GuardMaxLen == 2

GuardMessages ==
    {HumanMessage(<<"h", "i">>),
     HumanMessage(CorrectiveText(DEFAULT_REASON)),
     ToolMessage("get_weather_forecast", <<"t">>),
     AIMessage(Str(<<"o", "k">>), <<>>),
     AIMessage(Str(<<>>), <<>>),
     AIMessage(Str(<<" ", "\n">>), <<>>),
     AIMessage(Blocks(<<Block("text", <<" ">>), Block("image", <<"x">>)>>), <<>>),
     AIMessage(Str(<<"o", "k">>), <<"get_weather_forecast">>)}

GuardInit ==
    /\ messages \in UNION {[1..n -> GuardMessages] : n \in 1..GuardMaxLen}
    /\ hallucination_retries \in 0..MAX_HALLUCINATION_RETRIES
    /\ events = <<>>
    /\ pc = "after_model"
    /\ mode = "none"
    /\ request_tools = TOOLS
    /\ captured = <<>>
    /\ attempt = 0
    /\ pending = <<>>
    /\ response = NoResponse
    /\ turns = 1
    /\ detours = 0
    /\ modelCalls = 0
    /\ run = Running(0)
    /\ lastRetry = NoRetry
    /\ check = NoCheck
    /\ selection = NoSelection
    /\ AuxIdle

\* More verdict texts: surrounded by whitespace, in lower case, empty, and
\* longer words with one of the two prefixes.
GuardVerdicts ==
    {[raises |-> FALSE, content |-> Str(v)] :
        v \in {<<" ">> \o PASS, <<"p", "a", "s", "s">>, <<>>, PASS \o <<"E", "D">>,
               FAIL \o <<"E", "D">>, <<"\n">> \o FAIL_COLON \o <<"x">>, <<"O", "K">>}}

GuardNext ==
    \E verifier \in VerifierOutcomes(TRUE) \cup GuardVerdicts : AfterModel(verifier)

GuardSpec == GuardInit /\ [][GuardNext]_vars

(***************************************************************************)
(* The summary that after_model makes for the verifier, on long histories: *)
(* up to MaxHistory messages of two kinds in alternation with one message  *)
(* of a third kind among them, then the final answer that is examined.     *)
(* The summary is a local value of after_model and is recorded here only.  *)
(***************************************************************************)
MaxHistory == 12

Text(n) == [i \in 1..n |-> "a"]

SummaryMessages ==
    {HumanMessage(<<"h", "i">>),
     HumanMessage(SYSTEM_MARKER \o <<"x">>),
     HumanMessage(CorrectiveText(DEFAULT_REASON)),
     ToolMessage("get_weather_forecast", <<"t">>),
     AIMessage(Str(<<"o", "k">>), <<>>),
     AIMessage(Str(Text(SNIPPET_CHARS)), <<>>),
     AIMessage(Str(Text(SNIPPET_CHARS + 1)), <<>>),
     AIMessage(Str(<<"o", "k">>), <<"get_weather_forecast">>)}

\* n messages, a and b in alternation, c at place p.
SummaryHistory(n, p, a, b, c) ==
    [i \in 1..n |-> IF i = p THEN c ELSE IF i % 2 = 1 THEN a ELSE b]

SummaryInit ==
    /\ \E n \in 0..MaxHistory, p \in 1..MaxHistory :
          \E a \in SummaryMessages, b \in SummaryMessages, c \in SummaryMessages :
              messages = Append(SummaryHistory(n, p, a, b, c),
                                AIMessage(Str(<<"o", "k">>), <<>>))
    /\ hallucination_retries = 0
    /\ events = <<>>
    /\ pc = "after_model"
    /\ mode = "none"
    /\ request_tools = TOOLS
    /\ captured = <<>>
    /\ attempt = 0
    /\ pending = <<>>
    /\ response = NoResponse
    /\ turns = 1
    /\ detours = 0
    /\ modelCalls = 0
    /\ run = Running(0)
    /\ lastRetry = NoRetry
    /\ check = NoCheck
    /\ selection = NoSelection
    /\ AuxIdle

\* conversation_summary = self._summarize_conversation(messages)
Summarize ==
    /\ pc = "after_model"
    /\ ~check.evaluated
    /\ ~GateSkips(messages[Len(messages)])
    /\ ~BudgetExhausted(hallucination_retries)
    /\ check' = [NoCheck EXCEPT !.evaluated = TRUE, !.invoked = TRUE,
                                !.examined = Len(messages),
                                !.before_len = Len(messages),
                                !.summary = _summarize_conversation(messages)]
    /\ UNCHANGED <<messages, hallucination_retries, events, pc, mode, request_tools,
                   captured, attempt, pending, response, turns, detours,
                   modelCalls, run, lastRetry, selection, aux>>

SummaryNext == Summarize

SummarySpec == SummaryInit /\ [][SummaryNext]_vars


(***************************************************************************)
(* The backoff delay on its own.  Python's floats are binary fractions     *)
(* with a 53-bit mantissa, rounded to nearest, ties to even, after every   *)
(* operation; here the mantissa has MantissaBits bits and a number is the  *)
(* count of its units of 2^-(MantissaBits + 2), so that every product and  *)
(* sum below is an integer before it is rounded.                           *)
(***************************************************************************)
MantissaBits == 5

One == 2 ^ (MantissaBits + 2)

MODEL_INITIAL_DELAY == One
MODEL_BACKOFF_FACTOR == 2
TOOL_INITIAL_DELAY == (3 * One) \div 2
TOOL_BACKOFF_FACTOR == 2

RECURSIVE BitLen(_)
BitLen(n) == IF n = 0 THEN 0 ELSE 1 + BitLen(n \div 2)

\* The float nearest to n, the even one of two that are equally near.
fl(n) ==
    IF BitLen(n) <= MantissaBits THEN n
    ELSE LET ulp == 2 ^ (BitLen(n) - MantissaBits)
             q == n \div ulp
             rest == n % ulp
             up == 2 * rest > ulp \/ (2 * rest = ulp /\ q % 2 = 1)
         IN  (IF up THEN q + 1 ELSE q) * ulp

\* random.random(): k * 2^-MantissaBits for an integer k, below 1.
RandomValues == {k * (One \div 2 ^ MantissaBits) : k \in 0..(2 ^ MantissaBits - 1)}

\* random.uniform(a, b): a + (b - a) * random().
uniform(a, b, random) == fl(a + fl(((b - a) * random) \div One))

\* The exponent taken from a 1-based attempt number.
delay_one_based(initial, factor, att) == fl(initial * fl(factor ^ (att + 1)))

\* delay = INITIAL * (FACTOR ** attempt)
delay(initial, factor, att) == fl(initial * fl(factor ^ att))

\* sleep_time = delay + jitter, jitter = random.uniform(0, delay * 0.5)
sleep_time(initial, factor, att, random) ==
    LET d == delay(initial, factor, att)
        jitter == uniform(0, fl(d \div 2), random)
    IN  fl(d + jitter)

InitialDelay(wrapper) ==
    IF wrapper = "retry_model" THEN MODEL_INITIAL_DELAY ELSE TOOL_INITIAL_DELAY
BackoffFactor(wrapper) ==
    IF wrapper = "retry_model" THEN MODEL_BACKOFF_FACTOR ELSE TOOL_BACKOFF_FACTOR

\* The failed attempts a sleep follows: all but the last one.
DelayInit ==
    /\ ThreadIdle
    /\ sink = SinkIdle
    /\ weather = WeatherIdle
    /\ geocode = GeocodeIdle
    /\ backoff \in {[phase |-> "failed", wrapper |-> w[1], attempt |-> a, random |-> r,
                      sleep_time |-> 0] :
                        w \in {<<"retry_model", MAX_MODEL_RETRIES>>,
                               <<"retry_tool", MAX_TOOL_RETRIES>>},
                        a \in 0..(MAX_MODEL_RETRIES - 2), r \in RandomValues}
    /\ \/ backoff.wrapper = "retry_model"
       \/ backoff.attempt <= MAX_TOOL_RETRIES - 2

Sleep ==
    /\ backoff.phase = "failed"
    /\ backoff' = [backoff EXCEPT
                     !.phase = "slept",
                     !.sleep_time = sleep_time(InitialDelay(backoff.wrapper),
                                               BackoffFactor(backoff.wrapper),
                                               backoff.attempt, backoff.random)]
    /\ UNCHANGED <<thread, sink, weather, geocode>>

DelayNext == Sleep

DelaySpec == DelayInit /\ [][DelayNext]_vars


(***************************************************************************)
(* The event sink under several requests.  lists holds the list objects    *)
(* that exist, lists[1] being the one list object given as the default of  *)
(* the ContextVar; ctx[r] is the list the variable refers to in the        *)
(* context of request r (a copy of the server's context, in which the      *)
(* variable is not set).  emitted and trace record what each request       *)
(* emitted and in which order the requests did.                            *)
(***************************************************************************)
MaxRequests == 2
MaxEmits == 2
MaxHealth == 2

Requests == 1..MaxRequests
DefaultList == 1

\* reset on the list in place.
reset_events_in_place(s, r) ==
    [s EXCEPT !.lists[s.ctx[r]] = <<>>]

\* _events.set([]) in the context of r.
reset_events(s, r) ==
    [s EXCEPT !.lists = Append(@, <<>>), !.ctx[r] = Len(s.lists) + 1]

\* _events.get().append(event) in the context of r.
emit(s, r, event) ==
    [s EXCEPT !.lists[s.ctx[r]] = Append(@, event)]

\* list(_events.get()) in the context of r.
get_events(s, r) == s.lists[s.ctx[r]]

SinkStart ==
    [lists |-> <<(<<>>)>>,
     ctx |-> [r \in Requests |-> DefaultList],
     rpc |-> [r \in Requests |-> "waiting"],
     emitted |-> [r \in Requests |-> <<>>],
     returned |-> [r \in Requests |-> <<>>],
     trace |-> <<>>, loop |-> 0, health |-> 0]

SinkInit ==
    /\ ThreadIdle
    /\ backoff = BackoffIdle
    /\ weather = WeatherIdle
    /\ geocode = GeocodeIdle
    /\ sink = SinkStart

\* The event loop runs one handler at a time: a handler that is on the loop
\* (onLoop) starts when no other holds it and holds it until it awaits or
\* returns.
LoopFree(onLoop) == onLoop => sink.loop = 0
Holds(r, onLoop) == onLoop => sink.loop = r

\* completions, at reset_events().
Begin(r, onLoop) ==
    /\ sink.rpc[r] = "waiting"
    /\ LoopFree(onLoop)
    /\ sink' = [reset_events(sink, r) EXCEPT
                  !.rpc[r] = "running",
                  !.loop = IF onLoop THEN r ELSE @]
    /\ UNCHANGED <<thread, backoff, weather, geocode>>

NextEvent(r) == [request |-> r, seq |-> Len(sink.emitted[r]) + 1]

\* A middleware's emit_event inside agent.invoke.
Emit(r, onLoop) ==
    /\ sink.rpc[r] = "running"
    /\ Holds(r, onLoop)
    /\ Len(sink.emitted[r]) < MaxEmits
    /\ sink' = [emit(sink, r, NextEvent(r)) EXCEPT
                  !.emitted[r] = Append(@, NextEvent(r)),
                  !.trace = Append(@, r)]
    /\ UNCHANGED <<thread, backoff, weather, geocode>>

\* A retry wrapper after a failed attempt: the 'retrying' event, then
\* time.sleep(sleep_time), which keeps the thread it is called on.
RetrySleep(r, onLoop) ==
    /\ sink.rpc[r] = "running"
    /\ Holds(r, onLoop)
    /\ Len(sink.emitted[r]) < MaxEmits
    /\ sink' = [emit(sink, r, NextEvent(r)) EXCEPT
                  !.emitted[r] = Append(@, NextEvent(r)),
                  !.trace = Append(@, r),
                  !.rpc[r] = "sleeping"]
    /\ UNCHANGED <<thread, backoff, weather, geocode>>

Wake(r, onLoop) ==
    /\ sink.rpc[r] = "sleeping"
    /\ Holds(r, onLoop)
    /\ sink' = [sink EXCEPT !.rpc[r] = "running"]
    /\ UNCHANGED <<thread, backoff, weather, geocode>>

\* completions, at get_events() and the return.
Return(r, onLoop) ==
    /\ sink.rpc[r] = "running"
    /\ Holds(r, onLoop)
    /\ sink' = [sink EXCEPT !.returned[r] = get_events(sink, r),
                            !.rpc[r] = "done",
                            !.loop = IF onLoop THEN 0 ELSE @]
    /\ UNCHANGED <<thread, backoff, weather, geocode>>

\* health: a handler that answers at once.
Health(onLoop) ==
    /\ LoopFree(onLoop)
    /\ sink.health < MaxHealth
    /\ sink' = [sink EXCEPT !.health = @ + 1]
    /\ UNCHANGED <<thread, backoff, weather, geocode>>

\* The handlers interleaved at every step, whatever the host's scheduling.
SinkNext ==
    \E r \in Requests :
        \/ Begin(r, FALSE)
        \/ Emit(r, FALSE)
        \/ RetrySleep(r, FALSE)
        \/ Wake(r, FALSE)
        \/ Return(r, FALSE)

SinkSpec == SinkInit /\ [][SinkNext]_vars

\* The handlers as the service runs them: completions and health are
\* coroutines of one event loop, and completions calls agent.invoke
\* without awaiting anything.
LoopNext ==
    \/ \E r \in Requests :
          \/ Begin(r, TRUE)
          \/ Emit(r, TRUE)
          \/ RetrySleep(r, TRUE)
          \/ Wake(r, TRUE)
          \/ Return(r, TRUE)
    \/ Health(TRUE)

LoopSpec == SinkInit /\ [][LoopNext]_vars

(***************************************************************************)
(* The collector's three functions called from execution contexts in any   *)
(* order.  A context starts as a copy of one in which the variable is not  *)
(* set ("unset"), so that _events.get() gives the default; reset_events    *)
(* sets the variable in that context ("set").                              *)
(***************************************************************************)
CollectorInit ==
    /\ ThreadIdle
    /\ backoff = BackoffIdle
    /\ weather = WeatherIdle
    /\ geocode = GeocodeIdle
    /\ sink = [SinkStart EXCEPT !.rpc = [r \in Requests |-> "unset"]]

CallReset(r) ==
    /\ sink.rpc[r] = "unset"
    /\ sink' = [reset_events(sink, r) EXCEPT !.rpc[r] = "set"]
    /\ UNCHANGED <<thread, backoff, weather, geocode>>

CallEmit(r) ==
    /\ Len(sink.emitted[r]) < MaxEmits
    /\ sink' = [emit(sink, r, NextEvent(r)) EXCEPT
                  !.emitted[r] = Append(@, NextEvent(r)),
                  !.trace = Append(@, r)]
    /\ UNCHANGED <<thread, backoff, weather, geocode>>

CallGet(r) ==
    /\ sink.returned[r] # get_events(sink, r)
    /\ sink' = [sink EXCEPT !.returned[r] = get_events(sink, r)]
    /\ UNCHANGED <<thread, backoff, weather, geocode>>

CollectorNext ==
    \E r \in Requests :
        \/ CallReset(r)
        \/ CallEmit(r)
        \/ CallGet(r)

CollectorSpec == CollectorInit /\ [][CollectorNext]_vars


(***************************************************************************)
(* get_weather_forecast on its own: one call, for any answer of the two    *)
(* services.                                                               *)
(***************************************************************************)
Cities == {"Paris", "Atlantis"}

WeatherInit ==
    /\ ThreadIdle
    /\ sink = SinkIdle
    /\ backoff = BackoffIdle
    /\ geocode = GeocodeIdle
    /\ weather \in {[WeatherIdle EXCEPT !.phase = "called", !.city = c, !.geo = g,
                                        !.fc = f] :
                        c \in Cities, g \in GeoAnswers, f \in ForecastAnswers}

WeatherCall ==
    /\ weather.phase = "called"
    /\ LET out == get_weather_forecast(weather.city, weather.geo, weather.fc)
       IN  weather' = [weather EXCEPT !.phase = "returned", !.raised = out.raised,
                                      !.result = out.result, !.json = out.json]
    /\ UNCHANGED <<thread, sink, backoff, geocode>>

WeatherNext == WeatherCall

WeatherSpec == WeatherInit /\ [][WeatherNext]_vars

(***************************************************************************)
(* The throttle of _geocode_city under calls from several threads.  Time   *)
(* is counted in units of 0.15 seconds.   now is time.monotonic(), last is *)
(* _last_geocode; each thread has its place in the function, its local     *)
(* elapsed, the time its sleep ends and the calls it has made; requests    *)
(* lists the times at which _http_client.get was called.  The threads      *)
(* take their steps in any order and the clock moves between any two.      *)
(***************************************************************************)
GeoThreads == 2
MaxGeoCalls == 2
MaxClock == 16

\* 1.05 seconds, in units of 0.15 seconds.
GEOCODE_INTERVAL == 7

GeoThreadSet == 1..GeoThreads

\* _last_geocode = 0.0 at import; the monotonic clock is past the interval
\* when the first call comes.
GeocodeInit ==
    /\ ThreadIdle
    /\ sink = SinkIdle
    /\ backoff = BackoffIdle
    /\ weather = WeatherIdle
    /\ geocode = [now |-> GEOCODE_INTERVAL, last |-> 0,
                  pc |-> [t \in GeoThreadSet |-> "idle"],
                  elapsed |-> [t \in GeoThreadSet |-> 0],
                  wake |-> [t \in GeoThreadSet |-> 0],
                  calls |-> [t \in GeoThreadSet |-> 0],
                  requests |-> <<>>]

\* The clock.
Tick ==
    /\ geocode.now < MaxClock
    /\ geocode' = [geocode EXCEPT !.now = @ + 1]
    /\ UNCHANGED <<thread, sink, backoff, weather>>

\* elapsed = time.monotonic() - _last_geocode
ReadElapsed(t) ==
    /\ geocode.pc[t] = "idle"
    /\ geocode.calls[t] < MaxGeoCalls
    /\ geocode' = [geocode EXCEPT !.pc[t] = "test",
                                  !.calls[t] = @ + 1,
                                  !.elapsed[t] = geocode.now - geocode.last]
    /\ UNCHANGED <<thread, sink, backoff, weather>>

\* if elapsed < 1.05: time.sleep(1.05 - elapsed)
TestElapsed(t) ==
    /\ geocode.pc[t] = "test"
    /\ geocode' = IF geocode.elapsed[t] < GEOCODE_INTERVAL
                  THEN [geocode EXCEPT
                          !.pc[t] = "sleep",
                          !.elapsed[t] = 0,
                          !.wake[t] = geocode.now + (GEOCODE_INTERVAL - geocode.elapsed[t])]
                  ELSE [geocode EXCEPT !.pc[t] = "stamp", !.elapsed[t] = 0]
    /\ UNCHANGED <<thread, sink, backoff, weather>>

\* time.sleep returns, not before the time asked for.
EndSleep(t) ==
    /\ geocode.pc[t] = "sleep"
    /\ geocode.now >= geocode.wake[t]
    /\ geocode' = [geocode EXCEPT !.pc[t] = "stamp", !.wake[t] = 0]
    /\ UNCHANGED <<thread, sink, backoff, weather>>

\* _last_geocode = time.monotonic()
Stamp(t) ==
    /\ geocode.pc[t] = "stamp"
    /\ geocode' = [geocode EXCEPT !.pc[t] = "get", !.last = geocode.now]
    /\ UNCHANGED <<thread, sink, backoff, weather>>

\* _http_client.get(...), and the rest of the function.
HttpGet(t) ==
    /\ geocode.pc[t] = "get"
    /\ geocode' = [geocode EXCEPT !.pc[t] = "idle",
                                  !.requests = Append(@, geocode.now)]
    /\ UNCHANGED <<thread, sink, backoff, weather>>

GeocodeNext ==
    \/ Tick
    \/ \E t \in GeoThreadSet :
          \/ ReadElapsed(t)
          \/ TestElapsed(t)
          \/ EndSleep(t)
          \/ Stamp(t)
          \/ HttpGet(t)

GeocodeSpec == GeocodeInit /\ [][GeocodeNext]_vars


(***************************************************************************)
(* Properties.                                                             *)
(***************************************************************************)
IsBlank(s) == \A i \in 1..Len(s) : s[i] \in Whitespace

GuardEvent(e) == e.middleware = "hallucination_guardrail"

FailVerdict == check.evaluated /\ check.invoked /\ ~check.raised
               /\ startswith(check.verdict, FAIL)

MaxAttempts(wrapper) ==
    IF wrapper = "retry_model" THEN MAX_MODEL_RETRIES ELSE MAX_TOOL_RETRIES

\* The events the last finished retry wrapper emitted.
RetrySlice == SubSeq(events, lastRetry.first + 1, lastRetry.last)

RetryFailedEvent(e) ==
    e.status = "failed" /\ e.middleware \in {"retry_model", "retry_tool"}

\* C1: right after an evaluation whose verdict begins with FAIL, the history
\* is one message longer and ends with a corrective message, the counter is
\* its previous value plus one, exactly one event was emitted, a 'failed'
\* event carrying the new counter value, and control is back at the model step.
C1_FailVerdictCorrects ==
    FailVerdict =>
        /\ Len(messages) = check.before_len + 1
        /\ messages[Len(messages)].type = "HumanMessage"
        /\ startswith(messages[Len(messages)].content.text, SYSTEM_MARKER)
        /\ hallucination_retries = check.before_retries + 1
        /\ Len(events) = check.before_events + 1
        /\ events[Len(events)] =
              emit_event("hallucination_guardrail", "failed",
                         Detail("retry", hallucination_retries))
        /\ pc = "tool_selector"

C1_Witness == FailVerdict /\ pc = "tool_selector" /\ check.verdict = FAIL

\* C2: the counter is always between 0 and the maximum, and the verifier is
\* only ever invoked by an evaluation that found the counter below the maximum.
C2_CounterWithinBudget ==
    /\ hallucination_retries \in 0..MAX_HALLUCINATION_RETRIES
    /\ (check.evaluated /\ check.invoked)
          => check.before_retries < MAX_HALLUCINATION_RETRIES

C2_Witness ==
    /\ hallucination_retries = MAX_HALLUCINATION_RETRIES
    /\ turns = 2
    /\ check.evaluated
    /\ pc = "respond"
    /\ ~IsBlank(_extract_text(messages[Len(messages)].content))

\* C3: an evaluation whose most recent message is not an assistant message,
\* asks for a tool, or has blank text does not invoke the verifier; an
\* evaluation that invokes it examines the most recent message.
C3_GateBeforeVerifier ==
    check.evaluated =>
        LET last_message == messages[check.before_len]
        IN  /\ (\/ last_message.type # "AIMessage"
                \/ last_message.tool_calls # <<>>
                \/ IsBlank(_extract_text(last_message.content)))
                  => ~check.invoked
            /\ check.invoked => check.examined = check.before_len

C3_Witness ==
    /\ check.evaluated
    /\ ~check.invoked
    /\ check.before_retries = 0
    /\ messages[check.before_len].type = "AIMessage"
    /\ messages[check.before_len].tool_calls # <<>>
    /\ ~IsBlank(_extract_text(messages[check.before_len].content))

\* C4: an evaluation that finds the counter at the maximum does not invoke
\* the verifier, appends nothing, emits nothing, leaves the counter alone,
\* and a final response goes to the end of the turn.
C4_ExhaustedBudgetAccepts ==
    (check.evaluated /\ check.before_retries >= MAX_HALLUCINATION_RETRIES) =>
        /\ ~check.invoked
        /\ Len(messages) = check.before_len
        /\ Len(events) = check.before_events
        /\ hallucination_retries = check.before_retries
        /\ pc # "tool_selector"
        /\ messages[Len(messages)].tool_calls = <<>> => pc = "respond"

C4_Witness ==
    /\ check.evaluated
    /\ check.before_retries = MAX_HALLUCINATION_RETRIES
    /\ messages[Len(messages)].type = "AIMessage"
    /\ messages[Len(messages)].tool_calls = <<>>
    /\ ~IsBlank(_extract_text(messages[Len(messages)].content))
    /\ pc = "respond"

RECURSIVE Statuses(_)
Statuses(evs) ==
    IF evs = <<>> THEN <<>>
    ELSE (IF GuardEvent(evs[1]) THEN <<evs[1].status>> ELSE <<>>)
         \o Statuses(Tail(evs))

\* C5: a first turn on a plain question that was answered, whose first final
\* response got a FAIL verdict and whose regenerated response is a final
\* text, has the guardrail events 'failed' then 'passed', and ends with the
\* counter at 1.
C5_RegeneratedResponseChecked ==
    (/\ pc = "idle"
     /\ turns = 1
     /\ ~startswith(messages[1].content.text, SYSTEM_MARKER)
     /\ response.status = 200
     /\ ~IsBlank(response.content)
     /\ \E i \in 1..Len(response.middleware_events) :
            /\ GuardEvent(response.middleware_events[i])
            /\ response.middleware_events[i].status = "failed")
        => /\ Statuses(response.middleware_events) = <<"failed", "passed">>
           /\ hallucination_retries = 1

\* C6: right after an evaluation whose verification call raised, exactly one
\* event was emitted, an 'error' event of the guardrail, the history and the
\* counter are as before, and the response goes to the end of the turn.
C6_VerifierFailureAccepts ==
    (check.evaluated /\ check.invoked /\ check.raised) =>
        /\ Len(events) = check.before_events + 1
        /\ events[Len(events)] = emit_event("hallucination_guardrail", "error", NoDetails)
        /\ Len(messages) = check.before_len
        /\ hallucination_retries = check.before_retries
        /\ pc = "respond"

C6_Witness == check.evaluated /\ check.invoked /\ check.raised /\ pc = "respond"

\* C7: a retry wrapper that returned after k failed calls made k + 1 calls,
\* k < maxAttempts, returned what the handler returned, and emitted k
\* 'retrying' events and then one event: 'success' when k = 0, else
\* 'recovered' with attempts = k + 1.
C7_RecoveredAfterFailures ==
    lastRetry.ctl = "return" =>
        LET k == lastRetry.calls - 1
            mw == lastRetry.wrapper
        IN  /\ k >= 0 /\ k < MaxAttempts(mw)
            /\ lastRetry.sleeps = k
            /\ Len(RetrySlice) = k + 1
            /\ \A i \in 1..k :
                  RetrySlice[i] = emit_event(mw, "retrying", Detail("attempt", i))
            /\ RetrySlice[k + 1] =
                  IF k = 0 THEN emit_event(mw, "success", NoDetails)
                  ELSE emit_event(mw, "recovered", Detail("attempts", k + 1))
            /\ lastRetry.result = lastRetry.handler_result

C7_Witness ==
    /\ lastRetry.ctl = "return"
    /\ lastRetry.wrapper = "retry_model"
    /\ lastRetry.calls = 2
    /\ \E i \in 1..Len(events) :
          events[i] = emit_event("retry_tool", "recovered", Detail("attempts", 2))

\* C8: a retry wrapper that raised made exactly maxAttempts calls, slept
\* maxAttempts - 1 times (not after the last failure), raised the last
\* failure, and emitted maxAttempts - 1 'retrying' events and then one
\* 'failed' event with attempts = maxAttempts.
C8_ExhaustedAfterMaxAttempts ==
    lastRetry.ctl = "raise" =>
        LET max == MaxAttempts(lastRetry.wrapper)
            mw == lastRetry.wrapper
        IN  /\ lastRetry.calls = max
            /\ lastRetry.sleeps = max - 1
            /\ Len(RetrySlice) = max
            /\ \A i \in 1..(max - 1) :
                  RetrySlice[i] = emit_event(mw, "retrying", Detail("attempt", i))
            /\ RetrySlice[max] =
                  emit_event(mw, "failed", DetailErr("attempts", max, lastRetry.exc))
            /\ lastRetry.exc # ""

C8_Witness ==
    /\ lastRetry.ctl = "raise"
    /\ lastRetry.wrapper = "retry_tool"
    /\ lastRetry.calls = MAX_TOOL_RETRIES
    /\ pc = "failed"

\* C9: a request in which a retry wrapper emitted a 'failed' event is
\* answered with the 500 failure, never with a final assistant message.
C9_ExhaustionFailsTheTurn ==
    (pc = "idle" /\ \E i \in 1..Len(events) : RetryFailedEvent(events[i]))
        => response.status = 500

\* C10: within one model step the model is called at most 3 times.
C10_AtMostThreeModelCalls == modelCalls <= MAX_MODEL_RETRIES


\* The ToolSelector step has just run: wrap_model_call is at its first call
\* of the handler, or has raised before it.
SelectorJustRan == modelCalls = 0 /\ pc \in {"retry_model", "failed"}

\* The events emitted since the ToolSelector step began.
SelectorSlice == SubSeq(events, selection.first + 1, Len(events))

SelectorEvent(e) == e.middleware = "tool_selector"

\* The text of the most recent user message of a history that has one.
MostRecentUserText(msgs) ==
    LET H == {i \in 1..Len(msgs) : msgs[i].type = "HumanMessage"}
        i == CHOOSE k \in H : \A j \in H : j <= k
    IN  msgs[i].content.text

\* C11: right after a classification step that failed (the selection model
\* raised, or named a tool that is not declared), ToolSelector has not
\* raised: it emitted one 'error' event and is calling the handler with the
\* complete tool set.
C11_ClassificationFailureFallsBack ==
    (SelectorJustRan /\ selection.called /\ selection.exc # "") =>
        /\ pc = "retry_model"
        /\ mode = "fallback"
        /\ request_tools = TOOLS
        /\ SelectorSlice = <<emit_event("tool_selector", "error",
                                        [NoDetails EXCEPT !.error = selection.exc])>>

\* C12: right after a ToolSelector step on a history whose most recent user
\* message starts with "[SYSTEM:", the selection model was not called,
\* exactly one event was emitted, a 'skipped' one, and the handler is being
\* called with the complete tool set.
C12_CorrectionSkipsSelection ==
    (SelectorJustRan /\ startswith(MostRecentUserText(messages), SYSTEM_MARKER)) =>
        /\ ~selection.called
        /\ pc = "retry_model"
        /\ mode = "skipped"
        /\ request_tools = TOOLS
        /\ SelectorSlice = <<emit_event("tool_selector", "skipped", NoDetails)>>

\* A skipped selection in the model step that follows a tool round.
C12_Witness ==
    /\ SelectorJustRan /\ mode = "skipped" /\ ~selection.called
    /\ messages[Len(messages)].type = "ToolMessage"
    /\ startswith(MostRecentUserText(messages), SYSTEM_MARKER)

\* C13: a model step whose classification returned an empty selection and
\* whose model call returned was a success of ToolSelector: the model was
\* called with no tools, the step emitted a 'success' event with an empty
\* selected-tools list and no 'error' event, and the full tool set was not
\* fallen back to.
C13_EmptySelectionIsSuccess ==
    (pc = "after_model" /\ selection.called /\ selection.exc = ""
     /\ selection.names = <<>>) =>
        /\ mode = "selected"
        /\ request_tools = <<>>
        /\ events[Len(events)] =
              emit_event("tool_selector", "success",
                         [NoDetails EXCEPT !.key = "selected_tools",
                                           !.selected_tools = <<>>])
        /\ \A i \in 1..Len(SelectorSlice) :
              SelectorEvent(SelectorSlice[i]) => SelectorSlice[i].status # "error"


GuardCount(evs) == Cardinality({i \in 1..Len(evs) : GuardEvent(evs[i])})

FinalAnswer(m) == m.type = "AIMessage" /\ m.tool_calls = <<>>

\* C16: no step lowers the thread's counter, a new turn included; and from
\* a state where the counter is at the maximum, no step invokes the
\* verifier or adds a hallucination_guardrail event, and the evaluation of
\* a final answer accepts it, leaving the history as it is.
C16_CounterNeverResets ==
    [][/\ hallucination_retries' >= hallucination_retries
       /\ hallucination_retries = MAX_HALLUCINATION_RETRIES =>
             /\ ~check'.invoked
             /\ GuardCount(events') <= GuardCount(events)
             /\ (pc = "after_model" /\ FinalAnswer(messages[Len(messages)])) =>
                   (pc' = "respond" /\ messages' = messages)]_vars

\* A second turn answered without any guardrail event, the counter having
\* been brought to the maximum by the first turn.
C16_Witness ==
    /\ turns = 2 /\ pc = "idle" /\ response.status = 200
    /\ hallucination_retries = MAX_HALLUCINATION_RETRIES
    /\ ~IsBlank(response.content)
    /\ GuardCount(response.middleware_events) = 0

GenericFailure ==
    [status |-> 500, content |-> GENERIC_ERROR, middleware_events |-> <<>>]

\* C17: whatever the agent invocation raised and whatever events and
\* messages had accumulated, the answer to a failed request is the same one:
\* status 500, the fixed text, and no event; and no other step answers 500.
C17_FailureAnswerIsGeneric ==
    [][/\ pc = "failed" => response' = GenericFailure
       /\ (response'.status = 500 /\ response' # response) => pc = "failed"]_vars

\* A request that failed in the model step, after events were emitted.
C17_Witness ==
    /\ pc = "idle" /\ response = GenericFailure
    /\ Raised = "TimeoutError" /\ lastRetry.wrapper = "retry_model"
    /\ Len(events) >= MAX_MODEL_RETRIES

\* The JSON the weather tool returns when the geocoder timed out.
WeatherTimeoutJson ==
    get_weather_forecast("Paris", GeoTimeout, Forecast(<<"mon">>)).json

RetryToolEvent(e, status) == e.middleware = "retry_tool" /\ e.status = status

\* C19: a first turn on a plain question that produced a final response and
\* in which a call of the weather tool met a timeout of the weather service has, in its event
\* list, a retry_tool 'retrying' event followed by a retry_tool 'recovered'
\* event.
C19_WeatherTimeoutIsRetried ==
    (/\ turns = 1 /\ pc = "idle" /\ response.status = 200
     /\ ~startswith(messages[1].content.text, SYSTEM_MARKER)
     /\ \E k \in 1..Len(messages) :
           /\ messages[k].type = "ToolMessage"
           /\ messages[k].content.text = WeatherTimeoutJson) =>
        \E i, j \in 1..Len(events) :
            /\ i < j
            /\ RetryToolEvent(events[i], "retrying")
            /\ RetryToolEvent(events[j], "recovered")


\* The base delay and one and a half times it, as exact numbers.
BaseDelay == InitialDelay(backoff.wrapper) * BackoffFactor(backoff.wrapper) ^ backoff.attempt
DelayCeiling == (3 * BaseDelay) \div 2

\* C18 as stated: the delay slept after a failed attempt is at least the
\* base delay initial * factor^i and strictly below 1.5 times it.
C18_DelayBelowCeiling ==
    backoff.phase = "slept" =>
        (BaseDelay <= backoff.sleep_time /\ backoff.sleep_time < DelayCeiling)

\* C18: the delay slept after a failed attempt is at least the base delay
\* initial * factor^i and at most 1.5 times it; the sum of the base delay
\* and the largest jitter rounds to 1.5 times the base delay.
C18_DelayWithinClosedRange ==
    backoff.phase = "slept" =>
        (BaseDelay <= backoff.sleep_time /\ backoff.sleep_time <= DelayCeiling)

\* A tool-call delay with a jitter well inside the range.
C18_Witness ==
    /\ backoff.phase = "slept" /\ backoff.wrapper = "retry_tool"
    /\ BaseDelay = TOOL_INITIAL_DELAY
    /\ BaseDelay < backoff.sleep_time /\ backoff.sleep_time < DelayCeiling

\* The two services answered in a way that makes a helper raise.
ServiceFailure ==
    \/ weather.geo.kind # "ok"
    \/ weather.geo.results = <<>>
    \/ weather.geo.results[1].lat \notin Numerals
    \/ weather.geo.results[1].lon \notin Numerals
    \/ weather.fc.kind # "ok"

\* C20: a call of get_weather_forecast raises nothing and returns the dump
\* of a result; when geocoding or the forecast fetch failed the result has
\* ok = false and an error text, and a result with ok = true has place,
\* lat and lon.
C20_WeatherNeverRaises ==
    weather.phase = "returned" =>
        /\ weather.raised = ""
        /\ weather.json = model_dump_json(weather.result)
        /\ ServiceFailure => (~weather.result.ok /\ weather.result.error # <<>>)
        /\ weather.result.ok =>
              /\ weather.result.place # <<>>
              /\ weather.result.lat # <<>>
              /\ weather.result.lon # <<>>
              /\ ~ServiceFailure

\* A forecast answer without the expected keys, caught by the last clause.
C20_Witness ==
    /\ weather.phase = "returned"
    /\ weather.geo.kind = "ok" /\ weather.geo.results # <<>>
    /\ weather.fc.kind = "malformed"
    /\ ~weather.result.ok
    /\ weather.result.error = <<"Unexpected error", "properties">>


\* C14: the events returned for a request are the events that request
\* emitted, in the order it emitted them, whatever the other requests
\* emitted before or in between.
C14_ReturnedEventsAreOwn ==
    \A r \in DOMAIN sink.rpc :
        sink.rpc[r] = "done" => sink.returned[r] = sink.emitted[r]

\* Two requests whose emissions alternated, both answered.
C14_Witness ==
    /\ sink.trace = <<1, 2, 1, 2>>
    /\ sink.rpc[1] = "done" /\ sink.rpc[2] = "done"
    /\ Len(sink.returned[1]) = 2 /\ Len(sink.returned[2]) = 2

\* C15: whenever a request is in a backoff sleep, a waiting request can be
\* started and health can be answered.
C15_SleepBlocksOnlyItsTurn ==
    \A r \in DOMAIN sink.rpc :
        sink.rpc[r] = "sleeping" =>
            /\ \A q \in DOMAIN sink.rpc :
                  sink.rpc[q] = "waiting" => ENABLED Begin(q, TRUE)
            /\ sink.health < MaxHealth => ENABLED Health(TRUE)


\* The most recent user message is the corrective message of the guardrail.
CorrectionPending == MostRecentUserText(messages) = CorrectiveText(DEFAULT_REASON)

SkippedEvent == emit_event("tool_selector", "skipped", NoDetails)

\* C21: a FAIL verdict leaves the corrective message as the most recent user
\* message and control at the model step; and every ToolSelector step that
\* finds the corrective message as the most recent user message (the step
\* right after the verdict, and the steps after tool rounds that follow it)
\* does not call the selection model, emits one 'skipped' event and calls
\* the handler with the complete tool set.
C21_CorrectionBypassesNarrowing ==
    /\ FailVerdict =>
          /\ pc = "tool_selector"
          /\ MostRecentUserText(messages) = CorrectiveText(FailureReason(check.verdict))
    /\ (SelectorJustRan /\ CorrectionPending) =>
          /\ ~selection.called
          /\ pc = "retry_model"
          /\ mode = "skipped"
          /\ request_tools = TOOLS
          /\ SelectorSlice = <<SkippedEvent>>

\* After a FAIL verdict on a plain question: the regenerating step asked for
\* a tool, and the model step after the tool round is skipped as well.
C21_Witness ==
    /\ SelectorJustRan /\ CorrectionPending /\ mode = "skipped"
    /\ hallucination_retries = 1
    /\ messages[Len(messages)].type = "ToolMessage"
    /\ messages[1].content.text = <<"h", "i">>
    /\ Cardinality({i \in 1..Len(events) : events[i] = SkippedEvent}) = 2

HasPrefix(v, word) == Len(v) >= Len(word) /\ SubSeq(v, 1, Len(word)) = word

\* The evaluation accepted the response: nothing appended, the counter as
\* before, and the turn on its way to the answer.
Accepted ==
    /\ Len(messages) = check.before_len
    /\ hallucination_retries = check.before_retries
    /\ pc = "respond"

\* C22: an evaluation that got a verdict (the verifier's text without the
\* surrounding whitespace) emitted exactly one event, decided by the
\* verdict's first four characters: 'passed' and acceptance for PASS,
\* 'failed' and a correction for FAIL, 'error' and acceptance for any other
\* verdict.
C22_VerdictClassifiedByPrefix ==
    (check.evaluated /\ check.invoked /\ ~check.raised) =>
        LET v == check.verdict
            isPass == HasPrefix(v, <<"P", "A", "S", "S">>)
            isFail == HasPrefix(v, <<"F", "A", "I", "L">>)
            e == events[Len(events)]
        IN  /\ Len(events) = check.before_events + 1
            /\ GuardEvent(e)
            /\ isPass => (e.status = "passed" /\ Accepted)
            /\ isFail =>
                  /\ e.status = "failed"
                  /\ Len(messages) = check.before_len + 1
                  /\ messages[Len(messages)].type = "HumanMessage"
                  /\ hallucination_retries = check.before_retries + 1
                  /\ pc = "tool_selector"
            /\ (~isPass /\ ~isFail) => (e.status = "error" /\ Accepted)

\* A verdict in lower case, taken for a format error.
C22_Witness ==
    /\ check.evaluated /\ check.invoked /\ ~check.raised
    /\ check.verdict = <<"p", "a", "s", "s">>
    /\ events[Len(events)].status = "error"
    /\ Accepted

\* C23: an evaluation invoked the verifier exactly when the message it
\* examined was a final text response and the counter was below the
\* maximum; it then emitted exactly one event, a hallucination_guardrail
\* 'passed', 'failed' or 'error'; otherwise it emitted no event.
C23_OneEventIffVerified ==
    check.evaluated =>
        LET last_message == messages[check.before_len]
            gated == \/ last_message.type # "AIMessage"
                     \/ last_message.tool_calls # <<>>
                     \/ IsBlank(_extract_text(last_message.content))
            exhausted == check.before_retries >= MAX_HALLUCINATION_RETRIES
            new == SubSeq(events, check.before_events + 1, Len(events))
        IN  /\ check.invoked <=> (~gated /\ ~exhausted)
            /\ check.invoked =>
                  /\ Len(new) = 1
                  /\ GuardEvent(new[1])
                  /\ new[1].status \in {"passed", "failed", "error"}
            /\ ~check.invoked => new = <<>>

\* A final text response accepted without an event, the budget being spent.
C23_Witness ==
    /\ check.evaluated /\ ~check.invoked
    /\ check.before_retries = MAX_HALLUCINATION_RETRIES
    /\ FinalAnswer(messages[check.before_len])
    /\ ~IsBlank(_extract_text(messages[check.before_len].content))
    /\ Len(events) = check.before_events


\* C25: every step leaves the thread's messages as they were or longer,
\* the earlier sequence being a prefix of the later one.
C25_MessagesAppendOnly ==
    [][/\ Len(messages') >= Len(messages)
       /\ SubSeq(messages', 1, Len(messages)) = messages]_vars

\* A turn that went through a correction and a tool round.
C25_Witness ==
    /\ turns = 1 /\ pc = "respond"
    /\ Len(messages) = 6
    /\ messages[3].type = "HumanMessage"
    /\ messages[3].content.text = CorrectiveText(DEFAULT_REASON)
    /\ messages[5].type = "ToolMessage"

SuccessEvent(e) == e.middleware = "tool_selector" /\ e.status = "success"

\* C26: a tool_selector 'success' event of a model step lists exactly the
\* tools of the request that was forwarded to the handler in that step.
C26_SuccessListsForwardedTools ==
    \A i \in 1..Len(SelectorSlice) :
        SuccessEvent(SelectorSlice[i]) =>
            /\ mode = "selected"
            /\ SelectorSlice[i].details.selected_tools = request_tools

\* A narrowing to no tool at all, reported as such.
C26_Witness ==
    /\ pc = "after_model" /\ mode = "selected"
    /\ selection.names = <<>> /\ request_tools = <<>>
    /\ SuccessEvent(events[Len(events)])
    /\ events[Len(events)].details.selected_tools = <<>>

\* C27: a ToolSelector step skips selection only when the guardrail has
\* corrected the thread and its corrective message is the most recent user
\* message.
C27_SkipOnlyForGuardrailCorrection ==
    (SelectorJustRan /\ mode = "skipped") =>
        (hallucination_retries >= 1 /\ CorrectionPending)

\* C28: a tool_selector 'error' event of a model step means that the
\* classification of that step failed.
C28_ErrorOnlyForClassificationFailure ==
    \A i \in 1..Len(SelectorSlice) :
        (SelectorEvent(SelectorSlice[i]) /\ SelectorSlice[i].status = "error") =>
            (selection.called /\ selection.exc # "")

\* C29: an evaluation that does not end in a FAIL verdict leaves the
\* messages and the counter as they were and does not hand control back to
\* the model step.
C29_OnlyFailUpdatesState ==
    [][(pc = "after_model" /\ ~FailVerdict') =>
          /\ messages' = messages
          /\ hallucination_retries' = hallucination_retries
          /\ pc' \in {"tools", "respond"}]_vars

\* A PASS verdict on a thread that was not corrected before.
C29_Witness ==
    /\ check.evaluated /\ check.invoked /\ ~check.raised
    /\ HasPrefix(check.verdict, PASS)
    /\ check.before_retries = 0
    /\ Accepted

RetryModelEvent(e) == e.middleware = "retry_model"

\* C30: among the events of a model step, a 'skipped' event precedes every
\* retry_model event and a 'success' event follows every retry_model
\* event; and a step whose model call failed for good has no 'success'
\* event.
C30_SelectorEventOrder ==
    LET S == SelectorSlice
    IN  /\ \A i, j \in 1..Len(S) :
              (S[i] = SkippedEvent /\ RetryModelEvent(S[j])) => i < j
        /\ \A i, j \in 1..Len(S) :
              (SuccessEvent(S[i]) /\ RetryModelEvent(S[j])) => j < i
        /\ (pc = "failed" /\ lastRetry.wrapper = "retry_model") =>
              \A i \in 1..Len(S) : ~SuccessEvent(S[i])

\* A narrowed step whose model call timed out three times.
C30_Witness ==
    /\ pc = "failed" /\ mode = "selected"
    /\ lastRetry.wrapper = "retry_model" /\ lastRetry.exc = "TimeoutError"
    /\ Len(SelectorSlice) = MAX_MODEL_RETRIES


\* The corrective messages in the history: one per routing back to the model.
Corrections ==
    Cardinality({i \in 1..Len(messages) :
                    /\ messages[i].type = "HumanMessage"
                    /\ messages[i].content.text = CorrectiveText(DEFAULT_REASON)})

\* C24: a retry loop never starts a pass beyond its maximum number of
\* attempts, the guardrail has routed back to the model at most
\* MAX_HALLUCINATION_RETRIES times since the thread began, and every turn
\* under way ends, in an answer or in the failure answer.
C24_TurnsTerminate ==
    /\ [](/\ pc = "retry_model" => attempt < MAX_MODEL_RETRIES
          /\ pc = "tools" => attempt < MAX_TOOL_RETRIES
          /\ Corrections <= MAX_HALLUCINATION_RETRIES)
    /\ (pc # "idle") ~> (pc = "idle" /\ response.status \in {200, 500})

\* A turn that ended after a correction, a tool round and a retried call.
C24_Witness ==
    /\ pc = "idle" /\ response.status = 200
    /\ Corrections = MAX_HALLUCINATION_RETRIES
    /\ \E i \in 1..Len(messages) : messages[i].type = "ToolMessage"
    /\ \E i \in 1..Len(events) :
          events[i].middleware = "retry_model" /\ events[i].status = "recovered"


\* C31: an event emitted in a context that has not called reset_events is
\* in the list that get_events gives in no other context.
C31_UnresetEventsStayPrivate ==
    \A r, c \in Requests :
        (r # c /\ sink.rpc[r] = "unset") =>
            \A i \in 1..Len(sink.emitted[r]) :
                \A j \in 1..Len(get_events(sink, c)) :
                    get_events(sink, c)[j] # sink.emitted[r][i]


\* A corrective message: the one that the guardrail makes from a failure
\* reason.
IsCorrective(msg) ==
    /\ msg.type = "HumanMessage"
    /\ LET t == msg.content.text
       IN  /\ Len(t) >= Len(SYSTEM_MARKER) + 2
           /\ t = CorrectiveText(SubSeq(t, Len(SYSTEM_MARKER) + 2, Len(t) - 1))

InSummary(msg) ==
    \/ msg.type = "HumanMessage" /\ ~IsCorrective(msg)
    \/ msg.type = "AIMessage"

Rendered(msg) ==
    IF msg.type = "HumanMessage" THEN USER_LABEL \o msg.content.text
    ELSE IF msg.tool_calls # <<>>
    THEN ASSISTANT_LABEL \o CALLED_TOOLS \o msg.tool_calls \o <<"]">>
    ELSE IF Len(msg.content.text) > 100
    THEN ASSISTANT_LABEL \o SubSeq(msg.content.text, 1, 100) \o <<".", ".", ".">>
    ELSE ASSISTANT_LABEL \o msg.content.text

\* C32: the summary made for the verifier consists of the entries of the
\* last 10 messages among the user messages that are not corrective and
\* the assistant messages, an assistant message with tool calls given as
\* the list of its tool names and any other as its text, cut to 100
\* characters and '...' when longer; corrective messages and tool results
\* have no entry.
C32_SummaryIsLastTenEntries ==
    (check.evaluated /\ check.invoked /\ check.examined = Len(messages)) =>
        LET eligible == SelectSeq(SubSeq(messages, 1, check.before_len), InSummary)
            n == Len(eligible)
            recent == IF n > 10 THEN SubSeq(eligible, n - 9, n) ELSE eligible
        IN  check.summary = join(<<"\n">>, [i \in 1..Len(recent) |-> Rendered(recent[i])])


\* C33: any two geocoding requests are at least 1.05 seconds apart.
C33_GeocodingRequestsSpaced ==
    \A i, j \in 1..Len(geocode.requests) :
        i < j => geocode.requests[j] - geocode.requests[i] >= GEOCODE_INTERVAL

=============================================================================
